---- MODULE Spec2Model ----
(***************************************************************************)
(* A model of fusebook (src/fusebook/fusebook.py): the per-notebook        *)
(* projection FuseNotebook and the directory router FuseNotebookDir.       *)
(*                                                                         *)
(* Text that becomes part of a file name is a sequence of one-character    *)
(* strings; text that becomes file content is a sequence of code points;   *)
(* bytes are a sequence of integers 0..255.                                *)
(***************************************************************************)
EXTENDS Integers, Sequences, FiniteSets, TLC

\* ------------------------------------------------------------------ bounds

\* Most FuseNotebook constructions (successful or not) in a run.
MaxConstruct == 3
\* Most edits of the notebook file in a run.
MaxEdits == 1
\* The threads that call the router at the same time.
NThreads == 2
\* Most cells of a notebook document.
MaxCells == 2
\* Largest offset and largest length of a read request.
MaxArg == 4

\* ------------------------------------------------------------ text helpers

Max(a, b) == IF a >= b THEN a ELSE b
Min(a, b) == IF a <= b THEN a ELSE b

RECURSIVE Concat(_)
\* "".join(list): the concatenation of a sequence of sequences.
Concat(ss) == IF ss = <<>> THEN <<>> ELSE Head(ss) \o Concat(Tail(ss))

S_cell == <<"c", "e", "l", "l">>
S_out == <<"_", "o", "u", "t">>
S_data == <<"_", "d", "a", "t", "a">>
S_us == <<"_">>
S_md == <<".", "m", "d">>
S_txt == <<".", "t", "x", "t">>
S_py == <<".", "p", "y">>
S_png == <<".", "p", "n", "g">>
S_html == <<".", "h", "t", "m", "l">>
S_None == <<"N", "o", "n", "e">>
S_stdout == <<"s", "t", "d", "o", "u", "t">>
S_stderr == <<"s", "t", "d", "e", "r", "r">>
S_dot == <<".">>
S_dotdot == <<".", ".">>

\* Python's None, and an attribute that is not there, as values that no text is.
NoneVal == <<"<None>">>
Missing == <<"<missing>">>

DigitChar == <<"0", "1", "2", "3", "4", "5", "6", "7", "8", "9">>

RECURSIVE Str(_)
\* "{0}".format(i) for a natural number: its decimal digits.
Str(n) == IF n < 10 THEN <<DigitChar[n + 1]>>
          ELSE Str(n \div 10) \o <<DigitChar[(n % 10) + 1]>>

\* "{0}".format(x) for a string or None.
FormatArg(x) == IF x = NoneVal THEN S_None ELSE x

\* The characters names are made of, in code point order.
Alphabet ==
    <<".", "/", "0", "1", "2", "3", "4", "5", "6", "7", "8", "9", "N", "_",
      "a", "b", "c", "d", "e", "f", "g", "h", "i", "j", "k", "l", "m", "n",
      "o", "p", "q", "r", "s", "t", "u", "v", "w", "x", "y", "z">>

Ord(c) == CHOOSE i \in 1..Len(Alphabet) : Alphabet[i] = c

RECURSIVE StrLess(_, _)
\* Python's a < b on strings: lexicographic by code point.
StrLess(a, b) ==
    IF b = <<>> THEN FALSE
    ELSE IF a = <<>> THEN TRUE
    ELSE IF Head(a) = Head(b) THEN StrLess(Tail(a), Tail(b))
    ELSE Ord(Head(a)) < Ord(Head(b))

RECURSIVE Sorted(_)
\* sorted(d) over the keys of a dict: the keys in increasing order.
Sorted(S) ==
    IF S = {} THEN <<>>
    ELSE LET m == CHOOSE x \in S : \A y \in S \ {x} : StrLess(x, y)
         IN <<m>> \o Sorted(S \ {m})

\* One code point as UTF-8.
Utf8Char(c) ==
    IF c < 128 THEN <<c>>
    ELSE IF c < 2048 THEN <<192 + (c \div 64), 128 + (c % 64)>>
    ELSE IF c < 65536
        THEN <<224 + (c \div 4096), 128 + ((c \div 64) % 64), 128 + (c % 64)>>
    ELSE <<240 + (c \div 262144), 128 + ((c \div 4096) % 64),
           128 + ((c \div 64) % 64), 128 + (c % 64)>>

RECURSIVE Utf8(_)
\* str.encode("utf-8")
Utf8(text) == IF text = <<>> THEN <<>> ELSE Utf8Char(Head(text)) \o Utf8(Tail(text))

\* maybe_join: a list of fragments is joined, a string is taken as it is.
maybe_join(x) == IF x.list THEN Concat(x.v) ELSE x.v

Scalar(t) == [list |-> FALSE, v |-> t]
List(ts) == [list |-> TRUE, v |-> ts]

\* The value of a base64 digit, 64 for the pad '=', -1 for any other character.
B64Val(c) ==
    IF c >= 65 /\ c <= 90 THEN c - 65
    ELSE IF c >= 97 /\ c <= 122 THEN c - 71
    ELSE IF c >= 48 /\ c <= 57 THEN c + 4
    ELSE IF c = 43 THEN 62
    ELSE IF c = 47 THEN 63
    ELSE IF c = 61 THEN 64
    ELSE -1

\* The error a failed decoding or construction raises, as a value no bytes are.
Error == <<-1>>

RECURSIVE B64Step(_, _, _, _, _)
\* binascii.a2b_base64 from position i with `bits` pending bits of value
\* `acc` at position `quad` of the current group of four digits.
B64Step(s, i, bits, acc, quad) ==
    IF i > Len(s) THEN (IF bits # 0 THEN Error ELSE <<>>)
    ELSE LET v == B64Val(s[i]) IN
        IF v = 64 THEN
            IF quad < 2 \/ (quad = 2 /\ ~(i < Len(s) /\ B64Val(s[i + 1]) = 64))
            THEN B64Step(s, i + 1, bits, acc, quad)
            ELSE <<>>
        ELSE IF v = -1 THEN B64Step(s, i + 1, bits, acc, quad)
        ELSE LET a == acc * 64 + v
                 b == bits + 6
             IN IF b >= 8
                THEN LET rest == B64Step(s, i + 1, b - 8, a % (2 ^ (b - 8)), (quad + 1) % 4)
                     IN IF rest = Error THEN Error
                        ELSE <<a \div (2 ^ (b - 8))>> \o rest
                ELSE B64Step(s, i + 1, b, a, (quad + 1) % 4)

\* base64.decodestring(bytes(text, "ascii")): an error for text that is not
\* ASCII or is not padded base64.
B64Decode(text) ==
    IF \E i \in 1..Len(text) : text[i] >= 128 THEN Error
    ELSE B64Step(text, 1, 0, 0, 0)

\* bytes[start:stop] as Python slices it, indices counted from 0; a negative
\* index counts from the end, and both ends are clipped to the sequence.
PySlice(data, start, stop) ==
    LET n == Len(data)
        lo == IF start < 0 THEN Max(0, n + start) ELSE Min(start, n)
        hi == IF stop < 0 THEN Max(0, n + stop) ELSE Min(stop, n)
    IN IF hi <= lo THEN <<>> ELSE SubSeq(data, lo + 1, hi)

\* --------------------------------------------------------------- documents

\* mimetypes.guess_extension for the MIME types of the model: None for a type
\* the table does not know.
guess_extension(mime) ==
    CASE mime = "text/plain" -> S_txt
      [] mime = "image/png" -> S_png
      [] mime = "text/html" -> S_html
      [] OTHER -> NoneVal

\* The MIME types whose payload is base64.
BinaryMimes == {"image/png", "image/jpeg", "application/pdf"}

T_title == List(<<<<35, 32>>, <<233>>>>)   \* ["# ", "e-acute"]
T_print == Scalar(<<112, 40, 49, 41>>)     \* "p(1)"
T_one == List(<<<<49, 10>>>>)              \* ["1\n"]
T_empty == Scalar(<<>>)
T_b64 == Scalar(<<65, 81, 73, 68>>)        \* "AQID": the bytes 1 2 3
T_b64pad == Scalar(<<65, 81, 73, 61>>)     \* "AQI=": the bytes 1 2
T_b64bad == Scalar(<<65, 81, 73>>)         \* "AQI": incorrect padding
T_latex == Scalar(<<36, 120, 36>>)         \* "$x$"

O_stdout == [output_type |-> "stream", name |-> S_stdout, text |-> T_one]
O_stderr == [output_type |-> "stream", name |-> S_stderr, text |-> T_empty]
O_png ==
    [output_type |-> "display_data",
     data |-> <<[mime |-> "image/png", payload |-> T_b64],
                [mime |-> "text/plain", payload |-> T_one]>>]
O_html ==
    [output_type |-> "execute_result",
     data |-> <<[mime |-> "text/html", payload |-> T_title],
                [mime |-> "image/png", payload |-> T_b64pad]>>]
O_latex ==
    [output_type |-> "execute_result",
     data |-> <<[mime |-> "text/latex", payload |-> T_latex]>>]
O_badpng ==
    [output_type |-> "display_data",
     data |-> <<[mime |-> "text/plain", payload |-> T_one],
                [mime |-> "image/png", payload |-> T_b64bad]>>]
O_error == [output_type |-> "error"]

SeqsUpTo(S, n) == UNION {[1..m -> S] : m \in 0..n}

\* The output lists a code cell of the model is given.
OutputSeqs ==
    {<<>>, <<O_stdout>>, <<O_stdout, O_stderr>>, <<O_stdout, O_stdout>>,
     <<O_png, O_latex>>, <<O_error, O_html>>, <<O_badpng>>, <<O_latex, O_stdout>>}

\* The cells a document of the model is made of.
CellSet ==
    {[cell_type |-> "markdown", source |-> s] : s \in {T_title, T_empty}}
    \cup {[cell_type |-> "raw", source |-> T_empty]}
    \cup {[cell_type |-> "code", source |-> T_print, outputs |-> os] :
            os \in OutputSeqs}

\* metadata.language_info.file_extension: a string, or not there.
CodeExts == {S_py, S_md, S_out \o <<"0">> \o S_us \o S_stdout \o S_txt, Missing}

\* What the notebook file holds: a document, or something nbformat cannot read.
Garbage == [valid |-> FALSE]
DocSet ==
    {[valid |-> TRUE, codeext |-> e, cells |-> cs] :
        e \in CodeExts, cs \in SeqsUpTo(CellSet, MaxCells)}

\* ------------------------------------------------------------- FuseNotebook

NameMarkdown(i) == S_cell \o Str(i) \o S_md
NameCode(i, codeext) == S_cell \o Str(i) \o FormatArg(codeext)
\* NameStream without the output's index.
NameStreamNoIndex(i, j, name) ==
    S_cell \o Str(i) \o S_out \o S_us \o FormatArg(name) \o S_txt

NameStream(i, j, name) ==
    S_cell \o Str(i) \o S_out \o Str(j) \o S_us \o FormatArg(name) \o S_txt
NameData(i, j, k, ext) ==
    S_cell \o Str(i) \o S_out \o Str(j) \o S_data \o Str(k) \o FormatArg(ext)

\* The content of one MIME entry of a data output.
DataContent(mime, payload) ==
    IF mime \in BinaryMimes THEN B64Decode(maybe_join(payload))
    ELSE Utf8(maybe_join(payload))

\* The assignments to fnames and fdata that output j of cell i makes, in order
\* (i and j count from 0).
OutputEntries(i, j, output) ==
    IF output.output_type = "stream" THEN
        <<[fname |-> NameStream(i, j, output.name),
           kind |-> <<"stream", output>>,
           data |-> Utf8(maybe_join(output.text))]>>
    ELSE IF output.output_type \in {"display_data", "execute_result"} THEN
        [k \in 1..Len(output.data) |->
            [fname |-> NameData(i, j, k - 1, guess_extension(output.data[k].mime)),
             kind |-> <<"data", output.data[k]>>,
             data |-> DataContent(output.data[k].mime, output.data[k].payload)]]
    ELSE <<>>

\* The assignments that cell i makes, in order.
CellEntries(i, cell, codeext) ==
    IF cell.cell_type = "markdown" THEN
        <<[fname |-> NameMarkdown(i), kind |-> <<"markdown", cell>>,
           data |-> Utf8(maybe_join(cell.source))]>>
    ELSE IF cell.cell_type = "code" THEN
        <<[fname |-> NameCode(i, codeext), kind |-> <<"code", cell>>,
           data |-> Utf8(maybe_join(cell.source))]>>
        \o Concat([j \in 1..Len(cell.outputs) |->
                      OutputEntries(i, j - 1, cell.outputs[j])])
    ELSE <<>>

\* Every assignment the loop of loadnb makes over the document, in order.
Entries(node) ==
    Concat([i \in 1..Len(node.cells) |->
               CellEntries(i - 1, node.cells[i], node.codeext)])

\* The dict a sequence of assignments leaves: the last write to a key wins.
DictOf(es, field) ==
    [n \in {es[x].fname : x \in 1..Len(es)} |->
        LET last == CHOOSE x \in 1..Len(es) :
                        /\ es[x].fname = n
                        /\ \A y \in (x + 1)..Len(es) : es[y].fname # n
        IN IF field = "kind" THEN es[last].kind ELSE es[last].data]

\* loadnb on the content of the file: whether it raises, and fnames and fdata
\* as it leaves them.
Loaded(node, es) ==
    IF \E x \in 1..Len(es) : es[x].data = Error THEN [ok |-> FALSE]
    ELSE [ok |-> TRUE, fnames |-> DictOf(es, "kind"),
          fdata |-> DictOf(es, "data"), node |-> node]

loadnb(content) ==
    IF ~content.valid THEN [ok |-> FALSE]
    ELSE IF content.codeext = Missing THEN [ok |-> FALSE]
    ELSE Loaded(content, Entries(content))

\* Path(path).name: the last component, the empty string for no components.
PathName(parts) == IF parts = <<>> THEN <<>> ELSE parts[Len(parts)]

\* ------------------------------------------------------- the real filesystem

N_data == <<"d", "a", "t", "a">>
N_mnt == <<"m", "n", "t">>
N_nb == <<"n", "b", ".", "i", "p", "y", "n", "b">>
N_ln_nb == <<"l", "n", ".", "i", "p", "y", "n", "b">>
N_hidden == <<".", "i", "p", "y", "n", "b">>
N_d_nb == <<"d", ".", "i", "p", "y", "n", "b">>
N_sub == <<"s", "u", "b">>
N_ln == <<"l", "n">>
N_notes == <<"n", "o", "t", "e", "s", ".", "t", "x", "t">>
N_cell0 == S_cell \o <<"0">> \o S_md
N_x == <<"x">>
S_ipynb == <<".", "i", "p", "y", "n", "b">>

\* A filesystem is a function from the absolute paths that exist (a path is
\* the sequence of its component names, <<>> is "/") to what is there: a
\* directory, a file with its content and modification time, or a symbolic
\* link with its (absolute) target.
Dir == [kind |-> "dir"]
File(content, mtime) == [kind |-> "file", content |-> content, mtime |-> mtime]
Link(target) == [kind |-> "link", target |-> target]

Parent(parts) == IF parts = <<>> THEN <<>> ELSE SubSeq(parts, 1, Len(parts) - 1)

NoEntry == [ok |-> FALSE]

RECURSIVE Walk(_, _, _, _)
\* The kernel's path walk from the resolved directory `cur` over the
\* components `rest`, following every symbolic link (at most `fuel` of them):
\* the canonical path reached, or a failure (ENOENT, ENOTDIR, ELOOP).
Walk(fs, cur, rest, fuel) ==
    IF rest = <<>> THEN [ok |-> TRUE, path |-> cur]
    ELSE IF fs[cur].kind # "dir" THEN NoEntry
    ELSE LET c == Head(rest) IN
        IF c = S_dotdot THEN Walk(fs, Parent(cur), Tail(rest), fuel)
        ELSE IF c = S_dot THEN Walk(fs, cur, Tail(rest), fuel)
        ELSE LET nxt == Append(cur, c) IN
            IF nxt \notin DOMAIN fs THEN NoEntry
            ELSE IF fs[nxt].kind = "link" THEN
                IF fuel = 0 THEN NoEntry
                ELSE Walk(fs, <<>>, fs[nxt].target \o Tail(rest), fuel - 1)
            ELSE Walk(fs, nxt, Tail(rest), fuel)

\* os.stat(path): the entry the path leads to, links followed.
Stat(fs, parts) ==
    LET w == Walk(fs, <<>>, parts, 3) IN
    IF w.ok THEN [ok |-> TRUE, path |-> w.path, entry |-> fs[w.path]] ELSE NoEntry

\* os.lstat(path): the entry the path names, a final link not followed.
Lstat(fs, parts) ==
    IF parts = <<>> \/ PathName(parts) \in {S_dot, S_dotdot} THEN Stat(fs, parts)
    ELSE LET w == Walk(fs, <<>>, Parent(parts), 3) IN
        IF w.ok /\ fs[w.path].kind = "dir" /\ Append(w.path, PathName(parts)) \in DOMAIN fs
        THEN [ok |-> TRUE, path |-> Append(w.path, PathName(parts)),
              entry |-> fs[Append(w.path, PathName(parts))]]
        ELSE NoEntry

\* Path.is_file(), Path.is_dir(): false for a path that leads nowhere.
is_file(fs, parts) == LET s == Stat(fs, parts) IN s.ok /\ s.entry.kind = "file"
is_dir(fs, parts) == LET s == Stat(fs, parts) IN s.ok /\ s.entry.kind = "dir"

\* Path(root).resolve(): the canonical path (the model's roots exist).
resolve(fs, parts) == Stat(fs, parts).path

\* The stat record of an entry, as far as the program copies it.
StatRecord(entry) ==
    [st_mode |-> CASE entry.kind = "dir" -> "S_IFDIR"
                   [] entry.kind = "file" -> "S_IFREG"
                   [] OTHER -> "S_IFLNK",
     st_mtime |-> IF entry.kind = "file" THEN entry.mtime ELSE 0,
     st_nlink |-> 1]

\* PurePath.suffix of a name: from the last dot on, unless that dot is the
\* first or the last character of the name (or there is none).
suffix(name) ==
    LET dots == {i \in 1..Len(name) : name[i] = "."} IN
    IF dots = {} THEN <<>>
    ELSE LET i == CHOOSE d \in dots : \A e \in dots : e <= d IN
        IF 1 < i /\ i < Len(name) THEN SubSeq(name, i, Len(name)) ELSE <<>>

\* Path(path): the components of a request path; "." components are dropped.
RECURSIVE DropDots(_)
DropDots(parts) ==
    IF parts = <<>> THEN <<>>
    ELSE IF Head(parts) = S_dot \/ Head(parts) = <<>> THEN DropDots(Tail(parts))
    ELSE <<Head(parts)>> \o DropDots(Tail(parts))

PathParts(req) == DropDots(req.parts)

\* FuseNotebook(root): the object (with `id` as its identity), or a failure
\* when lstat, open or loadnb raises.
\* `l` is lstat(root), `f` the file open(root) reads, `n` what loadnb returns.
NotebookObject(root, id, l, n) ==
    IF ~n.ok THEN [ok |-> FALSE]
    ELSE [ok |-> TRUE, id |-> id, root |-> root, stat |-> StatRecord(l.entry),
          fnames |-> n.fnames, fdata |-> n.fdata, node |-> n.node]

NotebookFrom(root, id, l, f) ==
    IF ~l.ok \/ ~f.ok THEN [ok |-> FALSE]
    ELSE IF f.entry.kind # "file" THEN [ok |-> FALSE]
    ELSE NotebookObject(root, id, l, loadnb(f.entry.content))

FuseNotebook(fs, root, id) ==
    NotebookFrom(root, id, Lstat(fs, root), Stat(fs, root))

\* What a call answers: a value (a record: a stat record, a listing, bytes,
\* or none for Python's None), or the error it raises.
Ret(v) == [ok |-> TRUE, val |-> v]
Raise(e) == [ok |-> FALSE, errno |-> e]

\* FuseNotebook.readdir
NbReaddir(self) == <<S_dot, S_dotdot>> \o Sorted(DOMAIN self.fnames)

\* FuseNotebook.getattr
NbGetattr(self, path) ==
    LET fname == PathName(path) IN
    IF fname \in DOMAIN self.fnames
    THEN Ret([st_mode |-> self.stat.st_mode, st_mtime |-> self.stat.st_mtime,
              st_nlink |-> self.stat.st_nlink,
              st_size |-> Len(self.fdata[fname])])
    ELSE Raise("ENOENT")

\* FuseNotebook.read slicing data[offset:length].
NbReadToLength(self, path, length, offset) ==
    LET fname == PathName(path) IN
    IF fname \in DOMAIN self.fnames
    THEN Ret([bytes |-> PySlice(self.fdata[fname], offset, length)])
    ELSE Raise("ENOENT")

\* FuseNotebook.read
NbRead(self, path, length, offset) ==
    LET fname == PathName(path) IN
    IF fname \in DOMAIN self.fnames
    THEN Ret([bytes |-> PySlice(self.fdata[fname], offset, offset + length)])
    ELSE Raise("ENOENT")

\* ---------------------------------------------------------- FuseNotebookDir

\* A request path as the transport hands it over: whether it starts with "/",
\* and its components.
Req(parts) == [absolute |-> TRUE, parts |-> parts]

\* _classify without the test of the parent's suffix.
_classifyAnyFileParent(rt, fs, req) ==
    LET path == PathParts(req)
        fspath == rt \o path
    IN IF is_file(fs, Parent(fspath))
       THEN <<"nbcont", Parent(fspath)>>
       ELSE IF is_dir(fs, fspath) THEN <<"dir", fspath>>
       ELSE IF is_file(fs, fspath) THEN
           IF suffix(PathName(fspath)) = S_ipynb
           THEN <<"nb", fspath>>
           ELSE <<"file", fspath>>
       ELSE <<"None", fspath>>

\* FuseNotebookDir._classify: the type and fspath. An absolute path loses its
\* anchor, a relative one has none, and root / path keeps ".." components.
\* str(fspath) is the components joined by "/"; the model keeps the components.
_classify(rt, fs, req) ==
    LET path == PathParts(req)
        fspath == rt \o path
    IN IF is_file(fs, Parent(fspath)) /\ suffix(PathName(Parent(fspath))) = S_ipynb
       THEN <<"nbcont", Parent(fspath)>>
       ELSE IF is_dir(fs, fspath) THEN <<"dir", fspath>>
       ELSE IF is_file(fs, fspath) THEN
           IF suffix(PathName(fspath)) = S_ipynb
           THEN <<"nb", fspath>>
           ELSE <<"file", fspath>>
       ELSE <<"None", fspath>>

\* FuseNotebookDir._notebook run without interruption: the object returned
\* (or the failure of its construction) and the cache afterwards.
\* Store that keeps whatever the construction left, failed or not.
StoreAlways(cache, fspath, new) ==
    [nb |-> new, cache |-> (fspath :> new) @@ cache, built |-> TRUE]

\* `new` is the object FuseNotebook(fspath) returns, stored unless the
\* construction raised.
Store(cache, fspath, new) ==
    IF new.ok
    THEN [nb |-> new, cache |-> (fspath :> new) @@ cache, built |-> TRUE]
    ELSE [nb |-> new, cache |-> cache, built |-> TRUE]

\* _notebook without the look-up in the cache.
_notebookNoLookup(cache, fs, fspath, id) ==
    Store(cache, fspath, FuseNotebook(fs, fspath, id))

_notebook(cache, fs, fspath, id) ==
    IF fspath \in DOMAIN cache
    THEN [nb |-> cache[fspath], cache |-> cache, built |-> FALSE]
    ELSE Store(cache, fspath, FuseNotebook(fs, fspath, id))

\* Path(fspath).iterdir(): the names in a directory (in no particular order).
Children(fs, fspath) ==
    LET d == Stat(fs, fspath).path
    IN {PathName(p) : p \in {q \in DOMAIN fs : q # <<>> /\ Parent(q) = d}}

\* The bytes behind the file handle a read on a real file is given.
FhData == <<7, 8, 9>>

\* What a call on the router does: its answer, the cache afterwards, the
\* FuseNotebook that answered (its id, 0 for none) and whether one was built.
Answer(res, cache, inst, built) ==
    [res |-> res, cache |-> cache, inst |-> inst, built |-> built]

\* self._notebook(fspath).<call>: `n` is what _notebook did, `res` the answer
\* of the FuseNotebook it returned; the exception of a failed construction
\* goes to the caller.
Delegated(n, res) ==
    IF n.nb.ok THEN Answer(res, n.cache, n.nb.id, n.built)
    ELSE Answer(Raise("Exception"), n.cache, 0, n.built)

\* FuseNotebookDir.getattr on a path classified c.
GetattrAs(c, n, cache, fs, req) ==
    IF c[1] = "nbcont" THEN Delegated(n, NbGetattr(n.nb, PathParts(req)))
    ELSE IF c[1] \in {"dir", "file"} THEN
        Answer(Ret(StatRecord(Lstat(fs, c[2]).entry)), cache, 0, FALSE)
    ELSE IF c[1] = "nb" THEN
        Answer(Ret([st_mode |-> "S_IFDIR|0o775",
                    st_mtime |-> StatRecord(Lstat(fs, c[2]).entry).st_mtime,
                    st_nlink |-> 1, st_size |-> 4096]), cache, 0, FALSE)
    ELSE Answer(Raise("ENOENT"), cache, 0, FALSE)

\* FuseNotebookDir.getattr
Getattr(cache, rt, fs, req, id) ==
    GetattrAs(_classify(rt, fs, req),
              _notebook(cache, fs, _classify(rt, fs, req)[2], id), cache, fs, req)

\* FuseNotebookDir.readdir on a path classified c: a generator that yields
\* nothing for a path that is neither a directory nor a notebook.
ReaddirAs(c, n, cache, fs) ==
    IF c[1] = "dir" THEN
        Answer(Ret([dots |-> <<S_dot, S_dotdot>>, children |-> Children(fs, c[2])]),
               cache, 0, FALSE)
    ELSE IF c[1] = "nb" THEN Delegated(n, Ret([listing |-> NbReaddir(n.nb)]))
    ELSE Answer(Ret([listing |-> <<>>]), cache, 0, FALSE)

\* FuseNotebookDir.readdir
Readdir(cache, rt, fs, req, id) ==
    ReaddirAs(_classify(rt, fs, req),
              _notebook(cache, fs, _classify(rt, fs, req)[2], id), cache, fs)

\* FuseNotebookDir.read on a path classified c: falls off the end, returning
\* None, for a path that is neither inside a notebook nor a real file.
ReadAs(c, n, cache, req, length, offset) ==
    IF c[1] = "nbcont" THEN Delegated(n, NbRead(n.nb, PathParts(req), length, offset))
    ELSE IF c[1] = "file" THEN
        Answer(Ret([bytes |-> PySlice(FhData, offset, offset + length)]),
               cache, 0, FALSE)
    ELSE Answer(Ret([none |-> TRUE]), cache, 0, FALSE)

\* FuseNotebookDir.read
Read(cache, rt, fs, req, length, offset, id) ==
    ReadAs(_classify(rt, fs, req),
           _notebook(cache, fs, _classify(rt, fs, req)[2], id), cache,
           req, length, offset)

\* -------------------------------------------------------------------- state

VARIABLES
    fs,         \* the real filesystem
    root,       \* FuseNotebookDir.root
    notebooks,  \* FuseNotebookDir.notebooks: cache key -> FuseNotebook
    attempts,   \* the FuseNotebook constructions so far: cache key, success
    last,       \* the last call on the router and its answer
    thr,        \* the calls in progress on the router, per thread
    served,     \* the answers threads got from a FuseNotebook: key, object id
    nb,         \* a FuseNotebook used on its own
    nbres       \* the last call on nb and its answer

vars == <<fs, root, notebooks, attempts, last, thr, served, nb, nbres>>
routerVars == <<root, notebooks, attempts, last, thr, served>>

EmptyMap == [k \in {} |-> 0]

\* ------------------------------------------- a FuseNotebook used on its own

NbRoot == <<N_data, N_nb>>

\* A filesystem with one notebook file.
NbFs(content) ==
    (<<>> :> Dir) @@ (<<N_data>> :> Dir) @@ (NbRoot :> File(content, 0))

InitNb ==
    /\ fs \in {NbFs(c) : c \in DocSet \cup {Garbage}}
    /\ root = <<N_data>>
    /\ notebooks = EmptyMap
    /\ attempts = <<>>
    /\ last = [op |-> "none"]
    /\ thr = EmptyMap
    /\ served = {}
    /\ nb = [ok |-> FALSE]
    /\ nbres = [op |-> "none"]

\* FuseNotebook.__init__
NbConstruct ==
    /\ nbres.op = "none"
    /\ nb' = FuseNotebook(fs, NbRoot, 1)
    /\ nbres' = [op |-> "init", ok |-> nb'.ok]
    /\ UNCHANGED <<fs, routerVars>>

\* The names a call on the notebook asks for: its own and one it has not.
NbNames == DOMAIN nb.fnames \cup {N_x}

\* No call changes the object, so the calls that follow one call are those
\* that follow the construction: a behaviour makes one getattr or read, and
\* may list the directory again and again.
NbCallReaddir ==
    /\ nb.ok
    /\ nbres.op \in {"init", "readdir"}
    /\ nbres' = [op |-> "readdir", val |-> NbReaddir(nb)]
    /\ UNCHANGED <<fs, routerVars, nb>>

NbCallGetattr ==
    /\ nb.ok
    /\ nbres.op = "init"
    /\ \E name \in NbNames :
        nbres' = [op |-> "getattr", name |-> name,
                  res |-> NbGetattr(nb, <<N_nb, name>>)]
    /\ UNCHANGED <<fs, routerVars, nb>>

NbCallRead ==
    /\ nb.ok
    /\ nbres.op = "init"
    /\ \E name \in NbNames, length \in 0..MaxArg, offset \in 0..MaxArg :
        nbres' = [op |-> "read", name |-> name, length |-> length,
                  offset |-> offset,
                  res |-> NbRead(nb, <<N_nb, name>>, length, offset)]
    /\ UNCHANGED <<fs, routerVars, nb>>

NextNb == NbConstruct \/ NbCallReaddir \/ NbCallGetattr \/ NbCallRead

SpecNb == InitNb /\ [][NextNb]_vars

\* The calls the router hands to a FuseNotebook: getattr and read inside a
\* notebook, readdir on a notebook.
Routed(l) ==
    \/ l.op \in {"getattr", "read"} /\ l.type = "nbcont"
    \/ l.op = "readdir" /\ l.type = "nb"

\* ------------------------------------------------ the router, call by call

\* The contents the notebook file of the router's directory takes: two
\* documents, one whose construction fails part-way (a bad base64 payload
\* after a good cell), and one that is no notebook.
D_code(os) == [cell_type |-> "code", source |-> T_print, outputs |-> os]
D_md == [cell_type |-> "markdown", source |-> T_title]
DocA == [valid |-> TRUE, codeext |-> S_py, cells |-> <<D_md, D_code(<<O_stdout>>)>>]
DocB == [valid |-> TRUE, codeext |-> S_py, cells |-> <<D_code(<<O_png>>)>>]
DocPartial == [valid |-> TRUE, codeext |-> S_py, cells |-> <<D_md, D_code(<<O_badpng>>)>>]
Contents == {DocA, DocB, DocPartial, Garbage}

P_nb == <<N_data, N_nb>>

\* The directory the router serves: /data with the notebook nb.ipynb, a
\* symbolic link ln.ipynb to it, a directory sub, a plain file notes.txt;
\* /mnt is a symbolic link to /data.
RouterFs(content) ==
    (<<>> :> Dir) @@ (<<N_data>> :> Dir) @@ (<<N_mnt>> :> Link(<<N_data>>))
    @@ (P_nb :> File(content, 0))
    @@ (<<N_data, N_ln_nb>> :> Link(P_nb))
    @@ (<<N_data, N_sub>> :> Dir)
    @@ (<<N_data, N_notes>> :> File(Garbage, 0))

\* The paths the calls of the model ask for.
ReqPaths ==
    {Req(<<>>), Req(<<N_nb>>), Req(<<N_nb, N_cell0>>), Req(<<N_nb, N_x>>),
     Req(<<N_ln_nb>>), Req(<<N_ln_nb, N_cell0>>), Req(<<N_sub>>),
     Req(<<N_notes>>), Req(<<N_x>>)}

\* The (length, offset) pairs of the reads of the model.
ReadArgs == {<<MaxArg, 0>>, <<1, 1>>}

\* The root the program is started with: /data, or the link /mnt to it.
RootArgs == {<<N_data>>, <<N_mnt>>}

Init ==
    /\ fs \in {RouterFs(c) : c \in Contents}
    /\ root \in {resolve(fs, r) : r \in RootArgs}
    /\ notebooks = EmptyMap
    /\ attempts = <<>>
    /\ last = [op |-> "none"]
    /\ thr = EmptyMap
    /\ served = {}
    /\ nb = [ok |-> FALSE]
    /\ nbres = [op |-> "none"]

\* One call on the router, from entry to answer: the cache and the log of
\* constructions after it, and the record of the call.
Call(op, req, args, a) ==
    \E c \in {_classify(root, fs, req)} :
        /\ a.built => Len(attempts) < MaxConstruct
        /\ notebooks' = a.cache
        /\ attempts' = IF a.built
                       THEN Append(attempts, [key |-> c[2], ok |-> a.inst # 0])
                       ELSE attempts
        /\ last' = [op |-> op, req |-> req, args |-> args,
                    type |-> c[1], key |-> c[2],
                    res |-> a.res, inst |-> a.inst, built |-> a.built]
        /\ UNCHANGED <<fs, root, thr, served, nb, nbres>>

CallGetattr ==
    \E req \in ReqPaths :
        \E a \in {Getattr(notebooks, root, fs, req, Len(attempts) + 1)} :
            Call("getattr", req, <<>>, a)

CallReaddir ==
    \E req \in ReqPaths :
        \E a \in {Readdir(notebooks, root, fs, req, Len(attempts) + 1)} :
            Call("readdir", req, <<>>, a)

CallRead ==
    \E req \in ReqPaths, la \in ReadArgs :
        \E a \in {Read(notebooks, root, fs, req, la[1], la[2], Len(attempts) + 1)} :
            Call("read", req, la, a)

\* Someone rewrites the notebook file on disk.
EditNotebook ==
    /\ fs[P_nb].mtime < MaxEdits
    /\ \E c \in Contents \ {fs[P_nb].content} :
        fs' = [fs EXCEPT ![P_nb] = File(c, fs[P_nb].mtime + 1)]
    /\ UNCHANGED <<routerVars, nb, nbres>>

Next == CallGetattr \/ CallReaddir \/ CallRead \/ EditNotebook

Spec == Init /\ [][Next]_vars

\* ------------------------------------------------------ _classify on its own

P_sub_nb == <<N_data, N_sub, N_nb>>

\* The directories _classify is tried on: /data with sub/nb.ipynb, a link ln
\* to sub, a link ln.ipynb to nb.ipynb, notes.txt, a directory d.ipynb with a
\* file x in it; nb.ipynb is a file, a directory or not there, and a file
\* named .ipynb is there or not.
ClassifyFs(nbKind, hidden) ==
    (<<>> :> Dir) @@ (<<N_data>> :> Dir)
    @@ (<<N_data, N_sub>> :> Dir)
    @@ (P_sub_nb :> File(DocB, 0))
    @@ (<<N_data, N_ln>> :> Link(<<N_data, N_sub>>))
    @@ (<<N_data, N_ln_nb>> :> Link(P_nb))
    @@ (<<N_data, N_notes>> :> File(Garbage, 0))
    @@ (<<N_data, N_d_nb>> :> Dir)
    @@ (<<N_data, N_d_nb, N_x>> :> File(Garbage, 0))
    @@ (IF nbKind = "file" THEN (P_nb :> File(DocA, 0))
        ELSE IF nbKind = "dir" THEN (P_nb :> Dir)
        ELSE EmptyMap)
    @@ (IF hidden THEN (<<N_data, N_hidden>> :> File(DocA, 0)) ELSE EmptyMap)

ClassifyFsSet ==
    {ClassifyFs(k, h) : k \in {"file", "dir", "none"}, h \in BOOLEAN}

\* The request paths _classify is tried on.
ClassifyPaths ==
    {Req(p) : p \in
        {<<>>, <<N_nb>>, <<N_nb, N_cell0>>, <<N_nb, N_cell0, N_x>>,
         <<N_nb, S_dotdot>>, <<S_dot, N_nb>>,
         <<N_hidden>>, <<N_hidden, N_x>>,
         <<N_ln_nb>>, <<N_ln_nb, N_x>>,
         <<N_sub>>, <<N_sub, N_nb>>, <<N_sub, N_nb, N_x>>, <<N_sub, N_x>>,
         <<N_ln>>, <<N_ln, N_nb>>, <<N_ln, N_nb, N_cell0>>,
         <<N_sub, S_dotdot, N_nb>>, <<N_sub, S_dotdot, N_nb, N_cell0>>,
         <<N_notes>>, <<N_notes, N_x>>, <<N_x>>,
         <<N_d_nb>>, <<N_d_nb, N_x>>, <<N_d_nb, N_x, N_x>>}}
    \cup {[absolute |-> FALSE, parts |-> <<N_nb>>],
          [absolute |-> FALSE, parts |-> <<N_nb, N_cell0>>]}

InitClassify ==
    /\ fs \in ClassifyFsSet
    /\ root = resolve(fs, <<N_data>>)
    /\ notebooks = EmptyMap
    /\ attempts = <<>>
    /\ last = [op |-> "none"]
    /\ thr = EmptyMap
    /\ served = {}
    /\ nb = [ok |-> FALSE]
    /\ nbres = [op |-> "none"]

\* One call of _classify.
ClassifyCall ==
    /\ \E req \in ClassifyPaths :
        \E c \in {_classify(root, fs, req)} :
            last' = [op |-> "classify", req |-> req, type |-> c[1], key |-> c[2]]
    /\ UNCHANGED <<fs, root, notebooks, attempts, thr, served, nb, nbres>>

NextClassify == ClassifyCall

SpecClassify == InitClassify /\ [][NextClassify]_vars

\* --------------------------------------------- the router, calls overlapping

Threads == 1..NThreads

Idle == [pc |-> "idle"]

InitConc ==
    /\ fs \in {RouterFs(c) : c \in Contents}
    /\ root = resolve(fs, <<N_data>>)
    /\ notebooks = EmptyMap
    /\ attempts = <<>>
    /\ last = [op |-> "none"]
    /\ thr = [t \in Threads |-> Idle]
    /\ served = {}
    /\ nb = [ok |-> FALSE]
    /\ nbres = [op |-> "none"]

\* A thread enters getattr, readdir or read and classifies the path; a call
\* that is not handed to a FuseNotebook returns without touching the cache.
Enter(t) ==
    /\ thr[t].pc = "idle"
    /\ \E op \in {"getattr", "readdir", "read"}, req \in ReqPaths :
        \E c \in {_classify(root, fs, req)} :
            thr' = [thr EXCEPT ![t] =
                        IF Routed([op |-> op, type |-> c[1]])
                        THEN [pc |-> "lookup", op |-> op, req |-> req, key |-> c[2]]
                        ELSE Idle]
    /\ UNCHANGED <<fs, root, notebooks, attempts, last, served, nb, nbres>>

\* _notebook: `if fspath in self.notebooks: return self.notebooks[fspath]`
Lookup(t) ==
    /\ thr[t].pc = "lookup"
    /\ thr' = [thr EXCEPT ![t] =
                IF thr[t].key \in DOMAIN notebooks
                THEN [thr[t] EXCEPT !.pc = "answer"] @@ [nb |-> notebooks[thr[t].key]]
                ELSE [thr[t] EXCEPT !.pc = "construct"]]
    /\ UNCHANGED <<fs, root, notebooks, attempts, last, served, nb, nbres>>

\* _notebook: `nb = FuseNotebook(fspath, rw=self.rw)`; an exception ends the call.
Construct(t) ==
    /\ thr[t].pc = "construct"
    /\ Len(attempts) < MaxConstruct
    /\ \E new \in {FuseNotebook(fs, thr[t].key, Len(attempts) + 1)} :
        /\ attempts' = Append(attempts, [key |-> thr[t].key, ok |-> new.ok])
        /\ thr' = [thr EXCEPT ![t] =
                    IF new.ok
                    THEN [thr[t] EXCEPT !.pc = "store"] @@ [nb |-> new]
                    ELSE Idle]
    /\ UNCHANGED <<fs, root, notebooks, last, served, nb, nbres>>

\* _notebook: `self.notebooks[fspath] = nb; return nb`
StoreNew(t) ==
    /\ thr[t].pc = "store"
    /\ notebooks' = Store(notebooks, thr[t].key, thr[t].nb).cache
    /\ thr' = [thr EXCEPT ![t].pc = "answer"]
    /\ UNCHANGED <<fs, root, attempts, last, served, nb, nbres>>

\* The FuseNotebook that _notebook returned answers the call.
AnswerCall(t) ==
    /\ thr[t].pc = "answer"
    /\ served' = served \cup {[key |-> thr[t].key, id |-> thr[t].nb.id]}
    /\ thr' = [thr EXCEPT ![t] = Idle]
    /\ UNCHANGED <<fs, root, notebooks, attempts, last, nb, nbres>>

NextConc ==
    \E t \in Threads :
        Enter(t) \/ Lookup(t) \/ Construct(t) \/ StoreNew(t) \/ AnswerCall(t)

SpecConc == InitConc /\ [][NextConc]_vars

\* ------------------------------------------- claims about a FuseNotebook

\* C8: for a name of the namespace, with size the st_size getattr reports,
\* read(name, offset, length) with offset >= 0 and length >= 0 is no error and
\* returns content[offset : offset+length] clipped to the content:
\* max(0, min(length, size - offset)) bytes, those of the content from offset on.
C8_ReadIsClippedSlice ==
    (nbres.op = "read" /\ nbres.name \in DOMAIN nb.fnames) =>
        LET attr == NbGetattr(nb, <<N_nb, nbres.name>>)
            content == nb.fdata[nbres.name]
        IN /\ attr.ok
           /\ nbres.res.ok
           /\ Len(nbres.res.val.bytes) =
                Max(0, Min(nbres.length, attr.val.st_size - nbres.offset))
           /\ \A i \in 1..Len(nbres.res.val.bytes) :
                nbres.res.val.bytes[i] = content[nbres.offset + i]

\* A read that starts inside the content and asks for more than is left.
C8_Witness ==
    /\ nbres.op = "read"
    /\ nbres.name \in DOMAIN nb.fnames
    /\ nbres.offset > 0
    /\ nbres.offset < Len(nb.fdata[nbres.name])
    /\ nbres.offset + nbres.length > Len(nb.fdata[nbres.name])
    /\ Len(nbres.res.val.bytes) = Len(nb.fdata[nbres.name]) - nbres.offset

\* The extension the naming algorithm of the specification uses: the guessed
\* one, the empty string when none is known.
ClaimExt(mime) ==
    IF guess_extension(mime) = NoneVal THEN <<>> ELSE guess_extension(mime)

\* The names the naming algorithm of the specification gives a document.
ClaimNames(node) ==
    LET cells == node.cells
        code == {i \in 1..Len(cells) : cells[i].cell_type = "code"}
        outs == {<<i, j>> \in code \X (1..3) : j <= Len(cells[i].outputs)}
        out(ij) == cells[ij[1]].outputs[ij[2]]
    IN {S_cell \o Str(i - 1) \o S_md :
            i \in {x \in 1..Len(cells) : cells[x].cell_type = "markdown"}}
       \cup {S_cell \o Str(i - 1) \o node.codeext : i \in code}
       \cup {S_cell \o Str(ij[1] - 1) \o S_out \o Str(ij[2] - 1) \o S_us
                \o out(ij).name \o S_txt :
                ij \in {x \in outs : out(x).output_type = "stream"}}
       \cup UNION {{S_cell \o Str(ij[1] - 1) \o S_out \o Str(ij[2] - 1) \o S_data
                        \o Str(k - 1) \o ClaimExt(out(ij).data[k].mime) :
                        k \in 1..Len(out(ij).data)} :
                ij \in {x \in outs : out(x).output_type
                                        \in {"display_data", "execute_result"}}}

\* C9: the listing of a projection is ".", ".." and then, in lexicographic
\* order, exactly the names of the naming algorithm, the extension of a MIME
\* type being the empty string when none is known.
C9_ListingIsClaimNames ==
    nbres.op = "readdir" =>
        nbres.val = <<S_dot, S_dotdot>> \o Sorted(ClaimNames(nb.node))

\* The number of items of a document that the projection gives a file:
\* markdown cells, code cells, stream outputs, MIME entries of data outputs.
ItemCount(node) ==
    LET OutItems(o) ==
            IF o.output_type = "stream" THEN 1
            ELSE IF o.output_type \in {"display_data", "execute_result"}
                THEN Len(o.data)
            ELSE 0
        RECURSIVE SumOut(_)
        SumOut(os) == IF os = <<>> THEN 0 ELSE OutItems(Head(os)) + SumOut(Tail(os))
        CellItems(c) ==
            IF c.cell_type = "markdown" THEN 1
            ELSE IF c.cell_type = "code" THEN 1 + SumOut(c.outputs)
            ELSE 0
        RECURSIVE SumCells(_)
        SumCells(cs) == IF cs = <<>> THEN 0 ELSE CellItems(Head(cs)) + SumCells(Tail(cs))
    IN SumCells(node.cells)

StartsWithDot(s) == s # <<>> /\ Head(s) = "."

\* C10: when the code extension starts with ".", distinct items get distinct
\* names: no assignment of the construction overwrites an earlier one, the
\* namespace has one entry per item, and fnames and fdata have the same keys.
C10_NamesDoNotCollide ==
    (nb.ok /\ StartsWithDot(nb.node.codeext)) =>
        LET es == Entries(nb.node) IN
        /\ \A x, y \in 1..Len(es) : x # y => es[x].fname # es[y].fname
        /\ Cardinality(DOMAIN nb.fnames) = ItemCount(nb.node)
        /\ DOMAIN nb.fnames = DOMAIN nb.fdata

\* A projection of two code cells with stream and data outputs.
C10_Witness ==
    /\ nb.ok
    /\ StartsWithDot(nb.node.codeext)
    /\ Len(nb.node.cells) = 2
    /\ \A i \in 1..2 : nb.node.cells[i].cell_type = "code"
    /\ nb.node.cells[1].outputs = <<O_stdout, O_stdout>>
    /\ nb.node.cells[2].outputs = <<O_png, O_latex>>
    /\ Cardinality(DOMAIN nb.fnames) = 7

\* ------------------------------------------------ claims about the router

\* A step of the run that is one call on the router: every step is a call or
\* an edit of the notebook file, and an edit changes the filesystem.
CallStep == UNCHANGED fs

\* What the FuseNotebook `self` answers to the call recorded in l.
AnswerOf(self, l) ==
    CASE l.op = "getattr" -> NbGetattr(self, PathParts(l.req))
      [] l.op = "readdir" -> Ret([listing |-> NbReaddir(self)])
      [] l.op = "read" -> NbRead(self, PathParts(l.req), l.args[1], l.args[2])

\* C2: in a run of calls one after the other, a cache entry is never removed
\* or replaced, and a call routed to a path that has an entry is answered by
\* that object, from the names and contents it was built with, without
\* another construction, whatever the file holds by then.
C2_CachedProjectionIsReused ==
    [][/\ \A k \in DOMAIN notebooks :
            k \in DOMAIN notebooks' /\ notebooks'[k] = notebooks[k]
       /\ (CallStep /\ Routed(last') /\ last'.key \in DOMAIN notebooks) =>
            /\ last'.inst = notebooks[last'.key].id
            /\ ~last'.built
            /\ attempts' = attempts
            /\ last'.res = AnswerOf(notebooks[last'.key], last')
      ]_vars

\* A listing served from the cache after the file was rewritten with another
\* valid document.
C2_Witness ==
    /\ last.op = "readdir"
    /\ last.inst # 0
    /\ ~last.built
    /\ fs[P_nb].content \in {DocA, DocB}
    /\ notebooks[last.key].node # fs[P_nb].content
    /\ last.res.val.listing = NbReaddir(notebooks[last.key])

\* C3: the cache is keyed by the canonical real path of the notebook file:
\* every key is its own real path, so no two keys name the same file.
C3_KeysAreCanonical ==
    /\ \A k \in DOMAIN notebooks : Stat(fs, k).ok => k = Stat(fs, k).path
    /\ \A k1, k2 \in DOMAIN notebooks :
        (Stat(fs, k1).ok /\ Stat(fs, k2).ok /\ Stat(fs, k1).path = Stat(fs, k2).path)
            => k1 = k2

\* The contents whose construction succeeds.
ValidContents == {DocA, DocB}

\* C4: a call whose construction fails fails itself and leaves the cache as
\* it was, with no entry for the path and no failed object in it; a call
\* routed to a path without an entry attempts a construction, which succeeds
\* and is cached when the file is valid by then.
C4_FailedConstructionIsNotCached ==
    [][CallStep =>
        /\ \A k \in DOMAIN notebooks' : notebooks'[k].ok
        /\ (last'.built /\ last'.inst = 0) =>
            /\ ~last'.res.ok
            /\ notebooks' = notebooks
            /\ last'.key \notin DOMAIN notebooks'
        /\ (Routed(last') /\ last'.key \notin DOMAIN notebooks) =>
            /\ last'.built
            /\ attempts' = Append(attempts, [key |-> last'.key, ok |-> last'.inst # 0])
            /\ fs[P_nb].content \in ValidContents =>
                /\ last'.inst # 0
                /\ last'.key \in DOMAIN notebooks'
                /\ notebooks'[last'.key].node = fs[P_nb].content
      ]_vars

\* A construction that succeeds for a path whose earlier construction failed.
C4_Witness ==
    \E i, j \in 1..Len(attempts) :
        /\ i < j
        /\ attempts[i].key = attempts[j].key
        /\ ~attempts[i].ok
        /\ attempts[j].ok
        /\ attempts[j].key \in DOMAIN notebooks

\* C6: readdir answers with a listing only for a real directory or a
\* notebook; for a real file, a path inside a notebook or an absent path it
\* fails with NotADirectory.
C6_ReaddirFailsOffDirectories ==
    (last.op = "readdir" /\ last.type \in {"file", "nbcont", "None"}) =>
        (~last.res.ok /\ last.res.errno = "ENOTDIR")

\* C7: read answers with bytes only for a path inside a notebook or a real
\* file; for a real directory, a notebook or an absent path it fails with
\* IsADirectory or NotFound.
C7_ReadFailsOffFiles ==
    (last.op = "read" /\ last.type \in {"dir", "nb", "None"}) =>
        (~last.res.ok /\ last.res.errno \in {"EISDIR", "ENOENT"})

\* C1: when calls for the same notebook path overlap, the notebook is
\* constructed at most once for that path, the cache never holds a second
\* object for it, and every caller is answered by the same object.
C1_OneProjectionPerPath ==
    /\ \A i, j \in 1..Len(attempts) :
        (attempts[i].key = attempts[j].key /\ attempts[i].ok /\ attempts[j].ok)
            => i = j
    /\ \A a, b \in served : a.key = b.key => a.id = b.id

\* EndsWith(name, suf): the name ends in suf.
EndsWith(name, suf) ==
    /\ Len(name) >= Len(suf)
    /\ SubSeq(name, Len(name) - Len(suf) + 1, Len(name)) = suf

\* A name that ends in .ipynb after a stem that is not empty.
StemAndIpynb(name) == EndsWith(name, S_ipynb) /\ Len(name) > Len(S_ipynb)

\* The class and routing key that the precedence of the specification gives
\* the call recorded in l, IsNb(name) saying which names are notebook names.
ClassifiedByPrecedence(IsNb(_), l) ==
    LET p == root \o PathParts(l.req)
        interior == is_file(fs, Parent(p)) /\ IsNb(PathName(Parent(p)))
    IN /\ l.type \in {"nbcont", "dir", "nb", "file", "None"}
       /\ l.type = "nbcont" <=> interior
       /\ l.type = "dir" <=> (~interior /\ is_dir(fs, p))
       /\ l.type = "nb" <=>
            (~interior /\ ~is_dir(fs, p) /\ is_file(fs, p) /\ IsNb(PathName(p)))
       /\ l.type = "file" <=>
            (~interior /\ ~is_dir(fs, p) /\ is_file(fs, p) /\ ~IsNb(PathName(p)))
       /\ l.type = "None" <=> (~interior /\ ~is_dir(fs, p) /\ ~is_file(fs, p))
       /\ l.type = "nbcont" => l.key = Parent(p)

\* The scenario of the specification: with root /data and the notebook
\* /data/nb.ipynb, /nb.ipynb is a notebook and /nb.ipynb/cell0.md is inside
\* it, with /data/nb.ipynb as its key.
ClassifyScenario(l) ==
    (root = <<N_data>> /\ is_file(fs, P_nb)) =>
        /\ l.req = Req(<<N_nb>>) => l.type = "nb"
        /\ l.req = Req(<<N_nb, N_cell0>>) => (l.type = "nbcont" /\ l.key = P_nb)

====
